---------------------------- MODULE Spec2Model ----------------------------
(***************************************************************************)
(* A model of the Game of Life engine of src/src/lib.rs: the Universe       *)
(* (width, height, cells) and its operations new, set_width, set_height,    *)
(* tick, toggle_cell and set_cells, with Rust's u32 arithmetic and its      *)
(* panics (index out of bounds, arithmetic overflow, division by zero).     *)
(***************************************************************************)
EXTENDS Integers, Sequences, FiniteSets

(***************************************************************************)
(* Bounds of the exploration.                                               *)
(***************************************************************************)
\* the largest small dimension / coordinate a caller passes
MaxDim == 3
\* the largest cell storage on which mutations are explored
MaxCells == 9
\* the longest list handed to set_cells
MaxList == 2
\* the largest row or column named in such a list
MaxSeed == 1

(***************************************************************************)
(* Cell (lib.rs 17-21): #[repr(u8)] enum, Dead = 0, Alive = 1.              *)
(***************************************************************************)
Dead == 0
Alive == 1

\* Cell::toggle (lib.rs 25-32)
toggle(cell) == IF cell = Alive THEN Dead ELSE Alive

(***************************************************************************)
(* u32 arithmetic.  TLC's integers end at 2^31 - 1, so a product is         *)
(* computed on its base-256 digits: digits 0..3 are the 32 bits a wrapping  *)
(* multiplication keeps, digits 4..7 are what overflows.                    *)
(***************************************************************************)
Byte(x, i) == (x \div (256 ^ i)) % 256

MulTerm(a, b, i, j) == IF j \in 0..3 THEN Byte(a, i) * Byte(b, j) ELSE 0

MulColumn(a, b, k) ==
    MulTerm(a, b, 0, k) + MulTerm(a, b, 1, k - 1)
        + MulTerm(a, b, 2, k - 2) + MulTerm(a, b, 3, k - 3)

RECURSIVE MulCarry(_, _, _)
MulCarry(a, b, k) ==
    IF k = 0 THEN 0
    ELSE (MulColumn(a, b, k - 1) + MulCarry(a, b, k - 1)) \div 256

MulDigit(a, b, k) == (MulColumn(a, b, k) + MulCarry(a, b, k)) % 256

\* the largest value below 2^31
MaxI32 == (256 ^ 3) * 127 + ((256 ^ 3) - 1)

\* a * b is below 2^31: TLC computes it as it stands
mul_small(a, b) == a >= 0 /\ b >= 0 /\ (a = 0 \/ b <= MaxI32 \div a)

\* a * b does not fit a u32
mul_overflows(a, b) ==
    ~mul_small(a, b) /\ \E k \in 4..7 : MulDigit(a, b, k) # 0

\* the low 32 bits of a * b; a value of 2^31 or more is written as the
\* negative number with the same bits, which no length or index equals
wrapping_mul(a, b) ==
    IF mul_small(a, b) THEN a * b
    ELSE LET top == MulDigit(a, b, 3)
         IN  (IF top >= 128 THEN top - 256 ELSE top) * (256 ^ 3)
                 + MulDigit(a, b, 2) * (256 ^ 2)
                 + MulDigit(a, b, 1) * 256
                 + MulDigit(a, b, 0)

\* a * b on u32 under the build's overflow checks: a debug build panics on
\* overflow, a release build wraps
u32_mul(a, b, checks) ==
    IF checks /\ mul_overflows(a, b)
    THEN [panic |-> TRUE, val |-> 0]
    ELSE [panic |-> FALSE, val |-> wrapping_mul(a, b)]

\* a + b on u32 bit patterns (negative: 2^31 or more)
u32_add(a, b, checks) ==
    IF a >= 0 /\ b >= 0
    THEN [panic |-> FALSE,
          val |-> IF a <= MaxI32 - b THEN a + b
                  ELSE (a - MaxI32 - 1) + (b - MaxI32 - 1)]
    ELSE IF a < 0 /\ b < 0
    THEN IF checks THEN [panic |-> TRUE, val |-> 0]
         ELSE [panic |-> FALSE, val |-> (a + MaxI32 + 1) + (b + MaxI32 + 1)]
    ELSE IF a + b >= 0 /\ checks THEN [panic |-> TRUE, val |-> 0]
    ELSE [panic |-> FALSE, val |-> a + b]

\* a - 1 on u32: 0 - 1 panics in a debug build and wraps to 2^32 - 1 in a
\* release build
u32_pred(a, checks) ==
    IF a = 0
    THEN IF checks THEN [panic |-> TRUE, val |-> 0]
         ELSE [panic |-> FALSE, val |-> 0 - 1]
    ELSE [panic |-> FALSE, val |-> a - 1]

\* a % m on u32: a zero divisor panics in every build
u32_rem(a, m) ==
    IF m = 0 THEN [panic |-> TRUE, val |-> 0]
    ELSE IF a >= 0 /\ m > 0 THEN [panic |-> FALSE, val |-> a % m]
    ELSE IF a >= 0 THEN [panic |-> FALSE, val |-> a]
    ELSE IF m < 0
    THEN [panic |-> FALSE, val |-> IF a >= m THEN a - m ELSE a]
    ELSE [panic |-> FALSE,
          val |-> ((a % m) + ((2 * (MaxI32 % m) + 2) % m)) % m]

\* a variant of u32_lt: a <= b, which would make the ranges of tick's loops
\* inclusive
u32_le(a, b) ==
    IF (a >= 0) = (b >= 0) THEN a <= b ELSE a >= 0

\* a < b on u32 bit patterns
u32_lt(a, b) ==
    IF (a >= 0) = (b >= 0) THEN a < b ELSE a >= 0

(***************************************************************************)
(* Inputs.                                                                  *)
(***************************************************************************)
\* small coordinates and dimensions
Coords == 0..MaxDim
\* dimensions and coordinates a caller passes: the small ones and 2^16,
\* whose square is 2^32
DimInputs == Coords \cup {256 * 256}
\* the (row, column) pairs of the lists handed to set_cells
Pairs == (0..MaxSeed) \X (0..MaxSeed)
\* row-major order of pairs
PairLeq(p, q) == p[1] < q[1] \/ (p[1] = q[1] /\ p[2] <= q[2])
\* the lists of n pairs in row-major order, repeated pairs included
RECURSIVE ListsOfLen(_)
ListsOfLen(n) ==
    IF n = 0 THEN {<<>>}
    ELSE {Append(x[1], x[2]) :
             x \in {y \in ListsOfLen(n - 1) \X Pairs :
                       y[1] = <<>> \/ PairLeq(y[1][Len(y[1])], y[2])}}
\* the cells of the vertical blinker, as the list set_cells is handed
Blinker == <<(<<0, 1>>), (<<1, 1>>), (<<2, 1>>)>>
\* a list out of row-major order, with a pair repeated after another pair
Scattered == <<(<<1, 1>>), (<<0, 0>>), (<<1, 1>>), (<<0, 1>>)>>
\* the lists handed to set_cells
Lists == UNION {ListsOfLen(n) : n \in 0..MaxList} \cup {Blinker, Scattered}

(***************************************************************************)
(* State (lib.rs 37-41) and the build profile.                              *)
(***************************************************************************)
VARIABLES
    width,            \* Universe.width: u32
    height,           \* Universe.height: u32
    cells,            \* Universe.cells: Vec<Cell>, cells[i + 1] is index i
    overflow_checks,  \* TRUE: debug build (overflow panics); FALSE: release
    last              \* the last call: its name, whether it panicked, and
                      \* (for tick) the cells before it

vars == <<width, height, cells, overflow_checks, last>>

\* F(e), with e evaluated once and handed on as a value
Bind(e, F(_)) == CHOOSE y \in {F(v) : v \in {e}} : TRUE

\* the Universe as a value
self == [width |-> width, height |-> height, cells |-> cells]

Universe(w, h, cs) == [width |-> w, height |-> h, cells |-> cs]

\* (0..n).map(|_i| Cell::Dead).collect()
DeadCells(n) == [i \in 1..n |-> Dead]

(***************************************************************************)
(* Universe::new (lib.rs 80-108).                                           *)
(***************************************************************************)
NewWidth == 64
NewHeight == 64

new ==
    Universe(NewWidth, NewHeight,
             [k \in 1..(NewWidth * NewHeight) |->
                 LET i == k - 1
                 IN  IF i % 2 = 0 \/ i % 7 = 0 THEN Alive ELSE Dead])

(***************************************************************************)
(* Universe::set_width, Universe::set_height (lib.rs 131-140): the field    *)
(* is assigned first, then the product is computed and the cells replaced.  *)
(***************************************************************************)
set_width(u, w, checks) ==
    LET n == u32_mul(w, u.height, checks)
    IN  IF n.panic
        THEN [u |-> Universe(w, u.height, u.cells), panic |-> TRUE]
        ELSE [u |-> Universe(w, u.height, DeadCells(n.val)), panic |-> FALSE]

set_height(u, h, checks) ==
    LET n == u32_mul(u.width, h, checks)
    IN  IF n.panic
        THEN [u |-> Universe(u.width, h, u.cells), panic |-> TRUE]
        ELSE [u |-> Universe(u.width, h, DeadCells(n.val)), panic |-> FALSE]

\* a variant of get_index: column * width + row
get_index_swapped(u, row, column, checks) ==
    LET m == u32_mul(column, u.width, checks)
    IN  IF m.panic THEN m ELSE u32_add(m.val, row, checks)

(***************************************************************************)
(* Universe::get_index (lib.rs 197-200): row * width + column, as usize.    *)
(***************************************************************************)
get_index(u, row, column, checks) ==
    LET m == u32_mul(row, u.width, checks)
    IN  IF m.panic THEN m ELSE u32_add(m.val, column, checks)

\* self.cells[idx]: the bounds check of Vec indexing
InBounds(cs, idx) == idx >= 0 /\ idx < Len(cs)

(***************************************************************************)
(* Universe::live_neighbor_count (lib.rs 203-226).                          *)
(***************************************************************************)
Panic == [panic |-> TRUE, val |-> 0]

\* the delta arrays [self.height - 1, 0, 1] and [self.width - 1, 0, 1]
Deltas(dim, checks) ==
    LET d == u32_pred(dim, checks)
    IN  IF d.panic THEN d ELSE [panic |-> FALSE, val |-> <<d.val, 0, 1>>]

\* one pass of the inner loop body, for delta_row and delta_col
Neighbor(u, row, column, delta_row, delta_col, checks) ==
    LET r == u32_add(row, delta_row, checks)
        nr == IF r.panic THEN r ELSE u32_rem(r.val, u.height)
        c == u32_add(column, delta_col, checks)
        nc == IF c.panic THEN c ELSE u32_rem(c.val, u.width)
        idx == get_index(u, nr.val, nc.val, checks)
    IN  IF nr.panic \/ nc.panic \/ idx.panic THEN Panic
        ELSE IF ~InBounds(u.cells, idx.val) THEN Panic
        ELSE [panic |-> FALSE, val |-> u.cells[idx.val + 1]]

\* the two loops, flattened: pass k takes delta_row k \div 3 and delta_col
\* k % 3 of the arrays
RECURSIVE CountFrom(_, _, _, _, _, _)
CountFrom(u, row, column, k, count, checks) ==
    IF k = 9 THEN [panic |-> FALSE, val |-> count]
    ELSE LET dr == Deltas(u.height, checks)
             dc == Deltas(u.width, checks)
         IN  IF dr.panic \/ dc.panic THEN Panic
             ELSE LET delta_row == dr.val[(k \div 3) + 1]
                      delta_col == dc.val[(k % 3) + 1]
                  IN  IF delta_row = 0 /\ delta_col = 0
                      THEN CountFrom(u, row, column, k + 1, count, checks)
                      ELSE LET n == Neighbor(u, row, column,
                                             delta_row, delta_col, checks)
                           IN  IF n.panic THEN Panic
                               ELSE CountFrom(u, row, column, k + 1,
                                              count + n.val, checks)

\* a variant of live_neighbor_count: the first of the nine passes is left out
live_neighbor_count_from_second(u, row, column, checks) ==
    CountFrom(u, row, column, 1, 0, checks)

live_neighbor_count(u, row, column, checks) ==
    CountFrom(u, row, column, 0, 0, checks)

(***************************************************************************)
(* Universe::tick (lib.rs 158-193).                                         *)
(***************************************************************************)
\* a variant of the match: without the arm (Cell::Alive, x) if x > 3
next_cell_no_overpopulation(cell, x) ==
    IF cell = Alive /\ x < 2 THEN Dead
    ELSE IF cell = Alive /\ (x = 2 \/ x = 3) THEN Alive
    ELSE IF cell = Dead /\ x = 3 THEN Alive
    ELSE cell

\* the match on (cell, neighbors_alive)
next_cell(cell, x) ==
    IF cell = Alive /\ x < 2 THEN Dead
    ELSE IF cell = Alive /\ (x = 2 \/ x = 3) THEN Alive
    ELSE IF cell = Alive /\ x > 3 THEN Dead
    ELSE IF cell = Dead /\ x = 3 THEN Alive
    ELSE cell

\* a panic unwinds out of tick and drops next: self.cells is as before
TickPanic(u, calls) == [panic |-> TRUE, cells |-> u.cells, calls |-> calls]

\* a variant of the loop body: the cell and its neighbors are read from
\* next, where the cells of this generation are being written
TickCellInPlace(u, row, col, next, calls, checks) ==
    LET idx == get_index(u, row, col, checks)
        v == Universe(u.width, u.height, next)
    IN  IF idx.panic \/ ~InBounds(next, idx.val) THEN TickPanic(u, calls)
        ELSE LET cell == next[idx.val + 1]
                 neighbors_alive == live_neighbor_count(v, row, col, checks)
             IN  IF neighbors_alive.panic THEN TickPanic(u, calls + 1)
                 ELSE [panic |-> FALSE,
                       cells |-> [next EXCEPT ![idx.val + 1] =
                                    next_cell(cell, neighbors_alive.val)],
                       calls |-> calls + 1]

\* the body of the inner loop at (row, col); calls counts the invocations
\* of live_neighbor_count
TickCell(u, row, col, next, calls, checks) ==
    LET idx == get_index(u, row, col, checks)
    IN  IF idx.panic \/ ~InBounds(u.cells, idx.val) THEN TickPanic(u, calls)
        ELSE LET cell == u.cells[idx.val + 1]
                 neighbors_alive == live_neighbor_count(u, row, col, checks)
             IN  IF neighbors_alive.panic THEN TickPanic(u, calls + 1)
                 ELSE [panic |-> FALSE,
                       cells |-> [next EXCEPT ![idx.val + 1] =
                                    next_cell(cell, neighbors_alive.val)],
                       calls |-> calls + 1]

\* for col in 0..self.width
RECURSIVE TickCols(_, _, _, _, _, _)
TickCols(u, row, col, next, calls, checks) ==
    IF ~u32_lt(col, u.width)
    THEN [panic |-> FALSE, cells |-> next, calls |-> calls]
    ELSE Bind(TickCell(u, row, col, next, calls, checks),
              LAMBDA r : IF r.panic THEN r
                         ELSE TickCols(u, row, col + 1, r.cells, r.calls,
                                       checks))

\* for row in 0..self.height
RECURSIVE TickRows(_, _, _, _, _)
TickRows(u, row, next, calls, checks) ==
    IF ~u32_lt(row, u.height)
    THEN [panic |-> FALSE, cells |-> next, calls |-> calls]
    ELSE Bind(TickCols(u, row, 0, next, calls, checks),
              LAMBDA r : IF r.panic THEN r
                         ELSE TickRows(u, row + 1, r.cells, r.calls, checks))

\* let mut next = self.cells.clone(); the loops; self.cells = next
tick(u, checks) ==
    LET r == TickRows(u, 0, u.cells, 0, checks)
    IN  [u |-> Universe(u.width, u.height, r.cells),
         panic |-> r.panic, calls |-> r.calls]

(***************************************************************************)
(* Universe::toggle_cell (lib.rs 228-233).                                  *)
(***************************************************************************)
toggle_cell(u, row, col, checks) ==
    LET idx == get_index(u, row, col, checks)
    IN  IF idx.panic \/ ~InBounds(u.cells, idx.val)
        THEN [u |-> u, panic |-> TRUE]
        ELSE [u |-> Universe(u.width, u.height,
                             [u.cells EXCEPT ![idx.val + 1] = toggle(@)]),
              panic |-> FALSE]

(***************************************************************************)
(* Universe::set_cells (lib.rs 245-253): the cells are written in place,    *)
(* pair by pair, so a panic leaves the earlier pairs written.               *)
(***************************************************************************)
\* a variant of set_cells: each named cell is toggled
RECURSIVE set_cells_toggling(_, _, _)
set_cells_toggling(u, list, checks) ==
    IF list = <<>> THEN [u |-> u, panic |-> FALSE]
    ELSE LET row == Head(list)[1]
             col == Head(list)[2]
             idx == get_index(u, row, col, checks)
         IN  IF idx.panic \/ ~InBounds(u.cells, idx.val)
             THEN [u |-> u, panic |-> TRUE]
             ELSE Bind(Universe(u.width, u.height,
                                [u.cells EXCEPT ![idx.val + 1] = toggle(@)]),
                       LAMBDA v : set_cells_toggling(v, Tail(list), checks))

RECURSIVE set_cells(_, _, _)
set_cells(u, list, checks) ==
    IF list = <<>> THEN [u |-> u, panic |-> FALSE]
    ELSE LET row == Head(list)[1]
             col == Head(list)[2]
             idx == get_index(u, row, col, checks)
         IN  IF idx.panic \/ ~InBounds(u.cells, idx.val)
             THEN [u |-> u, panic |-> TRUE]
             ELSE Bind(Universe(u.width, u.height,
                                [u.cells EXCEPT ![idx.val + 1] = Alive]),
                       LAMBDA v : set_cells(v, Tail(list), checks))

(***************************************************************************)
(* The state machine: one action per public operation.                      *)
(***************************************************************************)
\* a call of op that leaves r; last records the call, whether it panicked
\* and, for tick, the cells it started from
Called(op, r) ==
    /\ width' = r.u.width
    /\ height' = r.u.height
    /\ cells' = r.u.cells
    /\ last' = [op |-> op, panic |-> r.panic,
                pre |-> IF op = "tick" THEN cells ELSE <<>>]
    /\ UNCHANGED overflow_checks

Init ==
    /\ width = new.width
    /\ height = new.height
    /\ cells = new.cells
    /\ overflow_checks \in BOOLEAN
    /\ last = [op |-> "new", panic |-> FALSE, pre |-> <<>>]

\* Each action binds the Universe, the build profile and the call's result
\* as values.  A resize is explored when the storage it asks for (the u32
\* product) holds at most MaxCells cells; tick, toggle_cell and set_cells are
\* explored on storages of at most MaxCells cells, tick on at most MaxDim rows.
SetWidth ==
    \E u \in {self}, checks \in {overflow_checks}, w \in DimInputs :
        LET n == wrapping_mul(w, u.height)
        IN  /\ n >= 0 /\ n <= MaxCells
            /\ \E r \in {set_width(u, w, checks)} : Called("set_width", r)

SetHeight ==
    \E u \in {self}, checks \in {overflow_checks}, h \in DimInputs :
        LET n == wrapping_mul(u.width, h)
        IN  /\ n >= 0 /\ n <= MaxCells
            /\ \E r \in {set_height(u, h, checks)} : Called("set_height", r)

Tick ==
    /\ height <= MaxDim
    /\ Len(cells) <= MaxCells
    /\ \E u \in {self}, checks \in {overflow_checks} :
           \E r \in {tick(u, checks)} : Called("tick", r)

ToggleCell ==
    /\ Len(cells) <= MaxCells
    /\ \E u \in {self}, checks \in {overflow_checks} :
           \E row \in DimInputs, col \in DimInputs :
               \E r \in {toggle_cell(u, row, col, checks)} :
                   Called("toggle_cell", r)

SetCells ==
    /\ Len(cells) <= MaxCells
    /\ \E u \in {self}, checks \in {overflow_checks}, list \in Lists :
           \E r \in {set_cells(u, list, checks)} : Called("set_cells", r)

Next == SetWidth \/ SetHeight \/ Tick \/ ToggleCell \/ SetCells

Spec == Init /\ [][Next]_vars

(***************************************************************************)
(* What the claims speak of.                                                *)
(***************************************************************************)
\* the storage has one cell per (row, column): the data model's invariant
WellFormed(u) ==
    mul_small(u.width, u.height) /\ Len(u.cells) = u.width * u.height

\* (row, col) is a cell of the grid
InRange(u, row, col) == row >= 0 /\ row < u.height /\ col >= 0 /\ col < u.width

\* the cell at flat index row * width + col of a well-formed grid
At(u, row, col) == u.cells[row * u.width + col + 1]

\* the rule table of the life/death rules
RuleTable(cell, n) ==
    IF cell = Alive THEN (IF n < 2 \/ n > 3 THEN Dead ELSE Alive)
    ELSE (IF n = 3 THEN Alive ELSE Dead)

AllCells(n, cell) == [i \in 1..n |-> cell]

\* the 3x3 grid whose column 1 is Alive, and the one whose row 1 is Alive
VerticalBlinker == <<Dead, Alive, Dead, Dead, Alive, Dead, Dead, Alive, Dead>>
HorizontalBlinker ==
    <<Dead, Dead, Dead, Alive, Alive, Alive, Dead, Dead, Dead>>

(***************************************************************************)
(* C1: a tick reads only the pre-tick grid.  Whenever tick is called on a   *)
(* grid with width >= 1 and height >= 1, the dimensions and the length of   *)
(* the storage stay; if it returns, every stored cell (row, col) holds      *)
(* what the rule table gives for its pre-tick state and its pre-tick        *)
(* live-neighbor count; if it panics, the cells are the pre-tick cells (no  *)
(* partly computed generation is stored); and on a well-formed grid it      *)
(* returns.                                                                 *)
(***************************************************************************)
C1_TickReadsPreTickGrid ==
    [][\A u \in {self}, checks \in {overflow_checks} :
          (last'.op = "tick" /\ u.width >= 1 /\ u.height >= 1) =>
              /\ width' = u.width /\ height' = u.height
              /\ Len(cells') = Len(u.cells)
              /\ last'.panic => cells' = u.cells
              /\ WellFormed(u) => ~last'.panic
              /\ ~last'.panic =>
                    \A i \in 1..Len(u.cells) :
                        LET row == (i - 1) \div u.width
                            col == (i - 1) % u.width
                            n == live_neighbor_count(u, row, col, checks)
                        IN  /\ ~n.panic
                            /\ cells'[i] = RuleTable(u.cells[i], n.val)]_vars

\* a tick has returned on a 3x3 grid on which some cell was born and some
\* cell survived
C1_Witness ==
    /\ last.op = "tick" /\ ~last.panic /\ width = 3 /\ height = 3
    /\ Len(last.pre) = 9 /\ Len(cells) = 9
    /\ \E i, k \in 1..9 :
           /\ last.pre[i] = Dead /\ cells[i] = Alive
           /\ last.pre[k] = Alive /\ cells[k] = Alive

(***************************************************************************)
(* C2: in every reachable state the length of cells is width * height (the  *)
(* product of the two numbers, which then is below 2^31).                   *)
(***************************************************************************)
C2_LengthIsWidthTimesHeight == WellFormed(self)

(***************************************************************************)
(* C3 as claimed: a tick from the 3x3 vertical blinker leaves the           *)
(* horizontal blinker, and a tick from the horizontal blinker leaves the    *)
(* vertical one.                                                            *)
(***************************************************************************)
C3_BlinkerOscillates ==
    (last.op = "tick" /\ width = 3 /\ height = 3) =>
        /\ last.pre = VerticalBlinker => cells = HorizontalBlinker
        /\ last.pre = HorizontalBlinker => cells = VerticalBlinker

(***************************************************************************)
(* C3 as amended: set_cells of the blinker's list on the 3x3 all-Dead grid  *)
(* leaves the vertical blinker; a tick from the 3x3 vertical blinker        *)
(* returns and leaves all nine cells Alive, and a second tick returns and   *)
(* leaves all nine cells Dead.                                              *)
(***************************************************************************)
C3_BlinkerFillsThenDies ==
    \A u \in {self}, checks \in {overflow_checks} :
        /\ (u.width = 3 /\ u.height = 3 /\ u.cells = AllCells(9, Dead)) =>
               \A r \in {set_cells(u, Blinker, checks)} :
                   ~r.panic /\ r.u.cells = VerticalBlinker
        /\ (last.op = "tick" /\ u.width = 3 /\ u.height = 3
                /\ last.pre = VerticalBlinker) =>
               /\ ~last.panic /\ u.cells = AllCells(9, Alive)
               /\ \A r \in {tick(u, checks)} :
                      ~r.panic /\ r.u.cells = AllCells(9, Dead)

\* the second tick after the vertical blinker has returned
C3_Witness ==
    /\ last.op = "tick" /\ ~last.panic /\ width = 3 /\ height = 3
    /\ last.pre = AllCells(9, Alive) /\ cells = AllCells(9, Dead)

(***************************************************************************)
(* C4 as claimed: on the 2x2 grid with all four cells Alive every cell's    *)
(* live-neighbor count is 3, and a tick leaves all four cells Alive.        *)
(***************************************************************************)
C4_BlockIsStable ==
    \A u \in {self}, checks \in {overflow_checks} :
        (u.width = 2 /\ u.height = 2 /\ u.cells = AllCells(4, Alive)) =>
            /\ \A row \in 0..1, col \in 0..1 :
                   live_neighbor_count(u, row, col, checks).val = 3
            /\ tick(u, checks).u.cells = AllCells(4, Alive)

(***************************************************************************)
(* C4 as amended: on the 2x2 grid with all four cells Alive every cell's    *)
(* live-neighbor count is 8; a tick returns and leaves all four cells Dead, *)
(* and a tick of the 2x2 all-Dead grid leaves it all Dead.                  *)
(***************************************************************************)
C4_BlockDies ==
    \A u \in {self}, checks \in {overflow_checks} :
        /\ (u.width = 2 /\ u.height = 2 /\ u.cells = AllCells(4, Alive)) =>
               /\ \A row \in 0..1, col \in 0..1 :
                      \A n \in {live_neighbor_count(u, row, col, checks)} :
                          ~n.panic /\ n.val = 8
               /\ \A r \in {tick(u, checks)} :
                      ~r.panic /\ r.u.cells = AllCells(4, Dead)
        /\ (u.width = 2 /\ u.height = 2 /\ u.cells = AllCells(4, Dead)) =>
               \A r \in {tick(u, checks)} :
                   ~r.panic /\ r.u.cells = AllCells(4, Dead)

\* a tick of the 2x2 all-Alive grid has returned
C4_Witness ==
    /\ last.op = "tick" /\ ~last.panic /\ width = 2 /\ height = 2
    /\ last.pre = AllCells(4, Alive) /\ cells = AllCells(4, Dead)

(***************************************************************************)
(* C5: whenever row >= height or col >= width, toggle_cell(row, col) and    *)
(* set_cells of a list holding (row, col) end in a panic and leave every    *)
(* cell as it was.                                                          *)
(***************************************************************************)
C5_OutOfRangeIsRejected ==
    \A u \in {self}, checks \in {overflow_checks} :
        Len(u.cells) <= MaxCells =>
            \A row \in DimInputs, col \in DimInputs :
                (~u32_lt(row, u.height) \/ ~u32_lt(col, u.width)) =>
                    /\ \A r \in {toggle_cell(u, row, col, checks)} :
                           r.panic /\ r.u.cells = u.cells
                    /\ \A r \in {set_cells(u, <<(<<row, col>>)>>, checks)} :
                           r.panic /\ r.u.cells = u.cells

(***************************************************************************)
(* C6: every set_width(w) leaves width = w, the height as it was, cells of  *)
(* length w * height and every cell Dead; every set_height(h) leaves        *)
(* height = h, the width as it was, cells of length width * h and every     *)
(* cell Dead.                                                               *)
(***************************************************************************)
C6_ResizeLeavesDeadGrid ==
    [][/\ last'.op = "set_width" =>
              /\ height' = height /\ ~last'.panic
              /\ mul_small(width', height)
              /\ cells' = AllCells(width' * height, Dead)
       /\ last'.op = "set_height" =>
              /\ width' = width /\ ~last'.panic
              /\ mul_small(width, height')
              /\ cells' = AllCells(width * height', Dead)]_vars

(***************************************************************************)
(* C7: for every list of in-range pairs, when set_cells(list) returns, the  *)
(* width and the height are as before, every listed cell is Alive, every    *)
(* unlisted cell is as before (so no Alive cell has become Dead), and       *)
(* set_cells(list) once more leaves the same grid; on a well-formed grid    *)
(* the call returns.                                                        *)
(***************************************************************************)
Listed(u, list, i) ==
    \E k \in 1..Len(list) : list[k][1] * u.width + list[k][2] + 1 = i

C7_SetCellsIsAdditive ==
    \A u \in {self}, checks \in {overflow_checks} :
        Len(u.cells) <= MaxCells =>
            \A list \in Lists :
                (\A k \in 1..Len(list) : InRange(u, list[k][1], list[k][2])) =>
                    \A r \in {set_cells(u, list, checks)} :
                        /\ WellFormed(u) => ~r.panic
                        /\ ~r.panic =>
                              /\ r.u.width = u.width /\ r.u.height = u.height
                              /\ Len(r.u.cells) = Len(u.cells)
                              /\ \A i \in 1..Len(u.cells) :
                                     r.u.cells[i] = IF Listed(u, list, i)
                                                    THEN Alive ELSE u.cells[i]
                              /\ \A r2 \in {set_cells(r.u, list, checks)} :
                                     ~r2.panic /\ r2.u = r.u

\* a set_cells has returned on a grid that holds an Alive cell, a Dead cell,
\* and more than one cell a row
C7_Witness ==
    /\ last.op = "set_cells" /\ ~last.panic /\ width >= 2 /\ height >= 2
    /\ WellFormed(self)
    /\ \E i, j \in 1..Len(cells) : cells[i] = Alive /\ cells[j] = Dead

(***************************************************************************)
(* C8: for every in-range (row, col), when toggle_cell(row, col) returns,   *)
(* the width and the height are as before, the cell at flat index           *)
(* row * width + col has changed from Alive to Dead or from Dead to Alive,  *)
(* every other cell is as before, and toggle_cell(row, col) once more       *)
(* restores the grid; on a well-formed grid the call returns.               *)
(***************************************************************************)
C8_ToggleFlipsOneCell ==
    \A u \in {self}, checks \in {overflow_checks} :
        Len(u.cells) <= MaxCells =>
            \A row \in DimInputs, col \in DimInputs :
                InRange(u, row, col) =>
                    \A r \in {toggle_cell(u, row, col, checks)} :
                        /\ WellFormed(u) => ~r.panic
                        /\ ~r.panic =>
                              /\ r.u.width = u.width /\ r.u.height = u.height
                              /\ Len(r.u.cells) = Len(u.cells)
                              /\ \A i \in 1..Len(u.cells) :
                                     r.u.cells[i] =
                                        IF i = row * u.width + col + 1
                                        THEN (IF u.cells[i] = Alive
                                              THEN Dead ELSE Alive)
                                        ELSE u.cells[i]
                              /\ \A r2 \in {toggle_cell(r.u, row, col, checks)} :
                                     ~r2.panic /\ r2.u = u

\* a toggle_cell has returned on a grid of several rows and columns that
\* holds an Alive cell and a Dead cell
C8_Witness ==
    /\ last.op = "toggle_cell" /\ ~last.panic /\ width >= 2 /\ height >= 2
    /\ WellFormed(self)
    /\ \E i, j \in 1..Len(cells) : cells[i] = Alive /\ cells[j] = Dead

(***************************************************************************)
(* C9: on every grid with width = 0 or height = 0, tick returns without a   *)
(* panic, has not invoked live_neighbor_count (where alone a dimension is   *)
(* subtracted from or divided by), and leaves width, height and cells as    *)
(* they were.                                                               *)
(***************************************************************************)
C9_TickOnEmptyGridIsNoOp ==
    \A u \in {self}, checks \in {overflow_checks} :
        ((u.width = 0 \/ u.height = 0) /\ u.height <= MaxDim) =>
            \A r \in {tick(u, checks)} :
                ~r.panic /\ r.calls = 0 /\ r.u = u

\* a tick has returned on a grid with one zero dimension
C9_Witness ==
    /\ last.op = "tick" /\ ~last.panic /\ (width = 0 \/ height = 0)
    /\ width + height > 0 /\ cells = last.pre

(***************************************************************************)
(* C10: on every well-formed grid with width >= 1 and height >= 1 and for   *)
(* every in-range (r, c), live_neighbor_count(r, c) returns the sum of the  *)
(* cells at ((r + dr) mod height, (c + dc) mod width) over the 8 offsets    *)
(* (dr, dc) other than (0, 0), a number in 0..8; and on a 3x3 grid whose    *)
(* cell (0, 0) is Dead, making it Alive raises live_neighbor_count(2, 2)    *)
(* by 1.                                                                    *)
(***************************************************************************)
Offsets == {-1, 0, 1}

OffsetCell(u, r, c, dr, dc) ==
    At(u, (r + dr + u.height) % u.height, (c + dc + u.width) % u.width)

EightOffsetSum(u, r, c) ==
    LET row(dr) == OffsetCell(u, r, c, dr, -1) + OffsetCell(u, r, c, dr, 1)
                   + (IF dr = 0 THEN 0 ELSE OffsetCell(u, r, c, dr, 0))
    IN  row(-1) + row(0) + row(1)

C10_CountIsEightOffsetSum ==
    \A u \in {self}, checks \in {overflow_checks} :
        (WellFormed(u) /\ u.width >= 1 /\ u.height >= 1
            /\ Len(u.cells) <= MaxCells) =>
            /\ \A r \in 0..(u.height - 1), c \in 0..(u.width - 1) :
                   \A n \in {live_neighbor_count(u, r, c, checks)} :
                       /\ ~n.panic
                       /\ n.val = EightOffsetSum(u, r, c)
                       /\ n.val \in 0..8
            /\ (u.width = 3 /\ u.height = 3 /\ u.cells[1] = Dead) =>
                   live_neighbor_count(
                       Universe(3, 3, [u.cells EXCEPT ![1] = Alive]),
                       2, 2, checks).val
                     = live_neighbor_count(u, 2, 2, checks).val + 1

=============================================================================
